---- MODULE Spec2Model ----
(***************************************************************************)
(* WeChatFileOrganizer (src/file_organizer.py): the classification-and-copy *)
(* engine.  A run creates the category directories, scans the source tree,  *)
(* then for each enumerated file polls the stop flag, reports progress,     *)
(* classifies, checks for a duplicate at the literal destination, resolves  *)
(* a unique name, copies and records.                                       *)
(*                                                                          *)
(* File names are sequences of one-character strings so that Path.stem,     *)
(* Path.suffix, str.lower and the f"{stem}_{counter}{suffix}" formatting    *)
(* are computed, not assumed.  Category names and the two final labels are  *)
(* written in English: Image=图片 Video=视频 Audio=音频 Document=文档       *)
(* Archive=压缩包 Program=程序 Other=其他, cancelled=收到停止信号,          *)
(* completed=整理完成.  The GUI's status texts: ready=就绪                   *)
(* organizing=正在整理文件... stopping=正在停止... cancelled=用户取消操作   *)
(* completed=整理完成 failed=整理失败.                                      *)
(***************************************************************************)
EXTENDS Integers, Sequences, FiniteSets, TLC

VARIABLES
    source_dir,        \* the source tree: rglob's entries, in enumeration order
    target_dir,        \* the files of the target tree: <<category, name>> -> content
    target_subdirs,    \* the category directories that exist under the target root
    progress_callback, \* TRUE: a callback was given; FALSE: progress_callback is None
    processed_files,   \* self.processed_files: destination paths
    skipped_files,     \* self.skipped_files: source paths (indices into source_dir)
    total_files,       \* self.total_files
    stop_requested,    \* self.stop_requested
    all_files,         \* organize_files' all_files: indices into source_dir
    scan_i,            \* scan_files' loop: entries visited so far
    i,                 \* organize_files' loop index (1-based)
    category_stats,    \* organize_files' category_stats
    total_size,        \* organize_files' total_size
    pc,                \* the position of the thread running organize_files
    calls,             \* every call the progress callback received, in order
    faults,            \* I/O and callback failures injected so far
    last_fault,        \* the failure injected into the iteration just executed
    initial_target,    \* the files of the target tree when the current run started
    runs,              \* calls of organize_files started so far, over all engines
    first_run,         \* what the previous run reported
    after_stop,        \* files the loop handled after the flag was set
    final_label,       \* the final label organize_files chose at line 210, "" before
    gui,               \* WeChatOrganizerGUI (src/gui_organizer.py): its fields and its two threads
    fn_call,           \* the helper last called on its own, with its arguments
    fn_result          \* what that call returned

vars == <<source_dir, target_dir, target_subdirs, progress_callback, processed_files, skipped_files, total_files, stop_requested, all_files, scan_i, i, category_stats, total_size, pc, calls, faults, last_fault, initial_target, runs, first_run, after_stop, final_label, gui, fn_call, fn_result>>

-----------------------------------------------------------------------------
(* Bounds *)

MaxEntries == 2

MaxFaults == 1

MaxRuns == 2

MaxMantissa == 2048

MaxSuffix == 3

-----------------------------------------------------------------------------
(* File names, contents *)

NameA == <<"a", ".", "t", "x", "t">>

NameA1 == <<"a", "_", "1", ".", "t", "x", "t">>

NameP == <<"p", ".", "J", "P", "G">>

NameA2 == <<"a", "_", "2", ".", "t", "x", "t">>

NameD == <<"d">>

Names == {NameA, NameA1, NameP}

Contents == {"X", "Y"}

\* what a copy interrupted by an error leaves at the destination
Partial == "partial"

\* st_size of a file with the given content
st_size(content) == CASE content = "X" -> 5 [] content = "Y" -> 3 [] OTHER -> 0

UpperCase == <<"A","B","C","D","E","F","G","H","I","J","K","L","M","N","O","P","Q","R","S","T","U","V","W","X","Y","Z">>

LowerCase == <<"a","b","c","d","e","f","g","h","i","j","k","l","m","n","o","p","q","r","s","t","u","v","w","x","y","z">>

Digits == <<"0","1","2","3","4","5","6","7","8","9">>

\* str.lower()
lower(s) == [k \in 1..Len(s) |-> IF \E j \in 1..26 : UpperCase[j] = s[k] THEN LowerCase[CHOOSE j \in 1..26 : UpperCase[j] = s[k]] ELSE s[k]]

RECURSIVE Str(_)
\* the characters of a name as one string
Str(s) == IF s = <<>> THEN "" ELSE Head(s) \o Str(Tail(s))

RECURSIVE Dec(_)
\* the decimal digits of n, as f"{counter}" prints them
Dec(n) == IF n < 10 THEN <<Digits[n + 1]>> ELSE Dec(n \div 10) \o <<Digits[(n % 10) + 1]>>

\* str.rfind('.') + 1: the position of the last dot, 0 when there is none
LastDot(name) == IF \E k \in 1..Len(name) : name[k] = "." THEN CHOOSE k \in 1..Len(name) : name[k] = "." /\ \A j \in (k + 1)..Len(name) : name[j] # "." ELSE 0

\* pathlib's PurePath.suffix: from the last dot, unless it leads or ends the name
PathSuffix(name) == IF 1 < LastDot(name) /\ LastDot(name) < Len(name) THEN SubSeq(name, LastDot(name), Len(name)) ELSE <<>>

\* pathlib's PurePath.stem
PathStem(name) == IF 1 < LastDot(name) /\ LastDot(name) < Len(name) THEN SubSeq(name, 1, LastDot(name) - 1) ELSE name

-----------------------------------------------------------------------------
(* The classification table *)

file_categories == <<
    [category |-> "Image", extensions |-> {".jpg", ".jpeg", ".png", ".gif", ".bmp", ".webp", ".svg", ".ico", ".tiff"}],
    [category |-> "Video", extensions |-> {".mp4", ".avi", ".mov", ".wmv", ".flv", ".mkv", ".webm", ".m4v", ".3gp"}],
    [category |-> "Audio", extensions |-> {".mp3", ".wav", ".flac", ".aac", ".ogg", ".wma", ".m4a", ".amr"}],
    [category |-> "Document", extensions |-> {".pdf", ".doc", ".docx", ".txt", ".rtf", ".xls", ".xlsx", ".ppt", ".pptx"}],
    [category |-> "Archive", extensions |-> {".zip", ".rar", ".7z", ".tar", ".gz", ".bz2"}],
    [category |-> "Program", extensions |-> {".exe", ".msi", ".dmg", ".pkg", ".deb", ".rpm", ".apk"}],
    [category |-> "Other", extensions |-> {}] >>

Categories == {file_categories[k].category : k \in 1..Len(file_categories)}

RECURSIVE CategoryFrom(_, _)
\* get_file_category's loop over the table, from row k on
CategoryFrom(suffix, k) == IF k > Len(file_categories) THEN "Other" ELSE IF file_categories[k].category # "Other" /\ suffix \in file_categories[k].extensions THEN file_categories[k].category ELSE CategoryFrom(suffix, k + 1)

\* a lookup that forgets to lower-case the suffix
CaseSensitiveCategory(name) == CategoryFrom(Str(PathSuffix(name)), 1)

\* a lookup that takes the extension from the first dot of the name
FirstDotCategory(name) == CategoryFrom(Str(lower(IF \E k \in 1..Len(name) : name[k] = "." THEN SubSeq(name, CHOOSE k \in 1..Len(name) : name[k] = "." /\ \A j \in 1..(k - 1) : name[j] # ".", Len(name)) ELSE <<>>)), 1)

get_file_category(name) == CategoryFrom(Str(lower(PathSuffix(name))), 1)

-----------------------------------------------------------------------------
(* Hashing, duplicate detection, unique names, copying *)

\* calculate_file_hash: the MD5 digest of the content, "" when reading fails
calculate_file_hash(content, fails) == IF fails THEN "" ELSE "md5:" \o content

\* a duplicate check that compares names only: whatever exists at the destination matches
DuplicateByName(source_content, fs, target_file, source_fails, target_fails) == target_file \in DOMAIN fs

\* a duplicate check that searches the whole category directory for the content
DuplicateAnywhere(source_content, fs, target_file, source_fails, target_fails) == \E p \in DOMAIN fs : p[1] = target_file[1] /\ fs[p] = source_content

\* a duplicate check without the test for the empty digest: two failed digests match
DuplicateEmptyMatches(source_content, fs, target_file, source_fails, target_fails) == target_file \in DOMAIN fs /\ calculate_file_hash(source_content, source_fails) = calculate_file_hash(fs[target_file], target_fails)

is_duplicate_file(source_content, fs, target_file, source_fails, target_fails) == IF target_file \notin DOMAIN fs THEN FALSE ELSE LET source_hash == calculate_file_hash(source_content, source_fails) target_hash == calculate_file_hash(fs[target_file], target_fails) IN source_hash = target_hash /\ source_hash # ""

RECURSIVE UniqueFrom(_, _, _, _, _, _)
\* generate_unique_filename's while loop
UniqueFrom(fs, category, stem, suffix, target_path, counter) == IF target_path \in DOMAIN fs THEN UniqueFrom(fs, category, stem, suffix, <<category, stem \o <<"_">> \o Dec(counter) \o suffix>>, counter + 1) ELSE target_path

\* a resolver whose counter starts at 2
CounterFromTwo(fs, category, filename) == UniqueFrom(fs, category, PathStem(filename), PathSuffix(filename), <<category, filename>>, 2)

\* a resolver that returns the literal path whether or not it is taken
LiteralFilename(fs, category, filename) == <<category, filename>>

generate_unique_filename(fs, category, filename) == UniqueFrom(fs, category, PathStem(filename), PathSuffix(filename), <<category, filename>>, 1)

\* shutil.copy2: the destination holds the content afterwards, whatever it held before
copy2(fs, dst, content) == [p \in DOMAIN fs \cup {dst} |-> IF p = dst THEN content ELSE fs[p]]

\* shutil.move in place of shutil.copy2: entry k is gone from the source tree
SourceAfterMove(src, k) == [src EXCEPT ![k] = [kind |-> "gone", name |-> @.name, content |-> ""]]

\* shutil.copy2 opens the source for reading only: the source tree after copying entry k
SourceAfterCopy(src, k) == src

-----------------------------------------------------------------------------
(* Initial states *)

DirEntry == [kind |-> "dir", name |-> NameD, content |-> ""]

FileEntries == [kind : {"file"}, name : Names, content : Contents]

Entries == FileEntries \cup {DirEntry}

SourceTrees == UNION {[1..n -> Entries] : n \in 0..MaxEntries}

\* the target before the first run: files may sit at Document/a.txt and Document/a_1.txt
PrePaths == {<<"Document", NameA>>, <<"Document", NameA1>>}

InitialTargets == UNION {[D -> {"X"}] : D \in SUBSET PrePaths}

NoRun == [processed |-> 0, skipped |-> 0, complete |-> FALSE]

\* no helper has been called on its own
NoCall == [op |-> "none"]

\* WeChatOrganizerGUI.__init__ (src/gui_organizer.py lines 30-31, 93-96): no engine, not running,
\* the start button enabled, the stop button disabled, no worker thread; pressed records that
\* the stop button was pressed during the present run while is_running was true
NoGui == [is_running |-> FALSE, organizer |-> 0, organize_button |-> TRUE, stop_button |-> FALSE, status_label |-> "ready", dialog |-> "none", worker |-> "none", stopper |-> "idle", pressed |-> FALSE]

\* WeChatFileOrganizer.__init__: no I/O, empty lists, flag clear
Init ==
    /\ source_dir \in SourceTrees
    /\ target_dir \in InitialTargets
    /\ target_subdirs = {p[1] : p \in DOMAIN target_dir}
    /\ progress_callback \in BOOLEAN
    /\ processed_files = <<>>
    /\ skipped_files = <<>>
    /\ total_files = 0
    /\ stop_requested = FALSE
    /\ all_files = <<>>
    /\ scan_i = 0
    /\ i = 0
    /\ category_stats = [c \in Categories |-> 0]
    /\ total_size = 0
    /\ pc = "idle"
    /\ calls = <<>>
    /\ faults = 0
    /\ last_fault = "none"
    /\ initial_target = target_dir
    /\ runs = 1
    /\ first_run = NoRun
    /\ after_stop = 0
    /\ final_label = ""
    /\ gui = NoGui
    /\ fn_call = NoCall
    /\ fn_result = ""

-----------------------------------------------------------------------------
(* Operations *)

\* the variables no step of a run changes before the loop is over
fixedVars == <<progress_callback, runs, first_run, final_label, gui, fn_call, fn_result>>

\* the engine's lists and counters
listVars == <<processed_files, skipped_files, category_stats, total_size>>

\* stop_organizing, from any thread, at any time
StopOrganizing ==
    /\ stop_requested' = TRUE
    /\ UNCHANGED <<source_dir, target_dir, target_subdirs, total_files, all_files, scan_i, i, pc, calls, faults, last_fault, initial_target, fixedVars, after_stop, listVars>>

\* a preparation that creates no directory
NoDirectoryCreated(dirs) == dirs

\* create_target_directories: mkdir(exist_ok=True) for every category of the table
create_target_directories(dirs) == dirs \cup Categories

\* organize_files up to the scan: create_target_directories
OrganizeStart ==
    /\ pc = "idle"
    /\ target_subdirs' = create_target_directories(target_subdirs)
    /\ initial_target' = target_dir
    /\ all_files' = <<>>
    /\ scan_i' = 0
    /\ pc' = "scan"
    /\ UNCHANGED <<source_dir, target_dir, total_files, stop_requested, i, calls, faults, last_fault, fixedVars, after_stop, listVars>>

\* scan_files: rglob itself raises (the root cannot be read); the except returns []
ScanRootFails ==
    /\ pc = "scan"
    /\ scan_i = 0
    /\ faults < MaxFaults
    /\ faults' = faults + 1
    /\ pc' = "scanned"
    /\ UNCHANGED <<source_dir, target_dir, target_subdirs, total_files, stop_requested, all_files, scan_i, i, calls, last_fault, initial_target, fixedVars, after_stop, listVars>>

ScanCall(k) == [cur |-> k, total |-> Len(source_dir), kind |-> "scan", name |-> source_dir[k].name]

\* scan_files: one iteration of the loop over file_list
ScanStep ==
    /\ pc = "scan"
    /\ scan_i < Len(source_dir)
    /\ scan_i' = scan_i + 1
    /\ calls' = IF progress_callback THEN Append(calls, ScanCall(scan_i + 1)) ELSE calls
    /\ all_files' = IF source_dir[scan_i + 1].kind = "file" THEN Append(all_files, scan_i + 1) ELSE all_files
    /\ UNCHANGED <<source_dir, target_dir, target_subdirs, total_files, stop_requested, i, pc, faults, last_fault, initial_target, fixedVars, after_stop, listVars>>

\* scan_files: the callback raises at an entry; the except around the loop ends the scan
ScanCallbackFails ==
    /\ pc = "scan"
    /\ scan_i < Len(source_dir)
    /\ progress_callback
    /\ faults < MaxFaults
    /\ faults' = faults + 1
    /\ scan_i' = scan_i + 1
    /\ calls' = Append(calls, ScanCall(scan_i + 1))
    /\ pc' = "scanned"
    /\ UNCHANGED <<source_dir, target_dir, target_subdirs, total_files, stop_requested, all_files, i, last_fault, initial_target, fixedVars, after_stop, listVars>>

\* scan_files returns after the last entry
ScanEnd ==
    /\ pc = "scan"
    /\ scan_i = Len(source_dir)
    /\ pc' = "scanned"
    /\ UNCHANGED <<source_dir, target_dir, target_subdirs, total_files, stop_requested, all_files, scan_i, i, calls, faults, last_fault, initial_target, fixedVars, after_stop, listVars>>

\* organize_files: "if not all_files: return", else set up the loop
AfterScan ==
    /\ pc = "scanned"
    /\ IF all_files = <<>>
       THEN /\ pc' = "done"
            /\ UNCHANGED <<total_files, category_stats, total_size, i>>
       ELSE /\ total_files' = Len(all_files)
            /\ category_stats' = [c \in Categories |-> 0]
            /\ total_size' = 0
            /\ i' = 1
            /\ pc' = "check"
    /\ UNCHANGED <<source_dir, target_dir, target_subdirs, processed_files, skipped_files, stop_requested, all_files, scan_i, calls, faults, last_fault, initial_target, fixedVars, after_stop>>

\* a loop that never looks at the flag
StopNeverPolled == FALSE

\* organize_files line 170: the flag as the loop polls it
StopPolled == stop_requested

\* the for loop's head and the stop check: leave the loop, or go on to handle file i
CheckStop ==
    /\ pc = "check"
    /\ pc' = IF i > Len(all_files) \/ StopPolled THEN "final" ELSE "handle"
    /\ last_fault' = "none"
    /\ UNCHANGED <<source_dir, target_dir, target_subdirs, total_files, stop_requested, all_files, scan_i, i, calls, faults, initial_target, fixedVars, after_stop, listVars>>

\* failures that raise out of a step of the loop body
RaisingFaults == {"callback", "exists", "copy_nofile", "copy_partial", "stat"}

\* failures that calculate_file_hash catches: the digest is ""
HashFaults == {"hash_src", "hash_dst", "hash_both"}

Faults == {"none"} \cup RaisingFaults \cup HashFaults

\* an except block that swallows the error without recording the file
ErrorDropped(skipped, k) == skipped

\* the except block of the loop: the file is recorded as skipped
OnError(skipped, k) == Append(skipped, k)

\* the file handled by iteration i, its category and its literal destination
CurFile == source_dir[all_files[i]]

CurCategory == get_file_category(CurFile.name)

CurLiteral == <<CurCategory, CurFile.name>>

\* is_duplicate_file as iteration i calls it, under the given fault
CurDuplicate(fault) == is_duplicate_file(CurFile.content, target_dir, CurLiteral, fault \in {"hash_src", "hash_both"}, fault \in {"hash_dst", "hash_both"})

CurUnique == generate_unique_filename(target_dir, CurCategory, CurFile.name)

\* a fault can only strike a step the iteration performs
FaultApplies(fault) == CASE fault \in {"none", "exists"} -> TRUE [] fault = "callback" -> progress_callback [] fault \in HashFaults -> CurLiteral \in DOMAIN target_dir [] OTHER -> ~CurDuplicate("none")

\* one iteration of the loop body, lines 174-207
HandleFile(fault) ==
    /\ pc = "handle"
    /\ fault = "none" \/ faults < MaxFaults
    /\ FaultApplies(fault)
    /\ faults' = IF fault = "none" THEN faults ELSE faults + 1
    /\ last_fault' = fault
    /\ after_stop' = IF stop_requested THEN after_stop + 1 ELSE after_stop
    /\ calls' = IF progress_callback THEN Append(calls, [cur |-> i, total |-> total_files, kind |-> "file", name |-> CurFile.name]) ELSE calls
    /\ i' = i + 1
    /\ pc' = "check"
    /\ CASE fault \in {"callback", "exists"} ->
              /\ skipped_files' = OnError(skipped_files, all_files[i])
              /\ UNCHANGED <<source_dir, target_dir, processed_files, category_stats, total_size>>
         [] fault \notin {"callback", "exists"} /\ CurDuplicate(fault) ->
              /\ skipped_files' = Append(skipped_files, all_files[i])
              /\ UNCHANGED <<source_dir, target_dir, processed_files, category_stats, total_size>>
         [] fault = "copy_nofile" /\ ~CurDuplicate(fault) ->
              /\ skipped_files' = OnError(skipped_files, all_files[i])
              /\ UNCHANGED <<source_dir, target_dir, processed_files, category_stats, total_size>>
         [] fault = "copy_partial" /\ ~CurDuplicate(fault) ->
              /\ target_dir' = copy2(target_dir, CurUnique, Partial)
              /\ source_dir' = SourceAfterCopy(source_dir, all_files[i])
              /\ skipped_files' = OnError(skipped_files, all_files[i])
              /\ UNCHANGED <<processed_files, category_stats, total_size>>
         [] fault = "stat" /\ ~CurDuplicate(fault) ->
              /\ target_dir' = copy2(target_dir, CurUnique, CurFile.content)
              /\ source_dir' = SourceAfterCopy(source_dir, all_files[i])
              /\ skipped_files' = OnError(skipped_files, all_files[i])
              /\ UNCHANGED <<processed_files, category_stats, total_size>>
         [] OTHER ->
              /\ target_dir' = copy2(target_dir, CurUnique, CurFile.content)
              /\ source_dir' = SourceAfterCopy(source_dir, all_files[i])
              /\ total_size' = total_size + st_size(CurFile.content)
              /\ category_stats' = [category_stats EXCEPT ![CurCategory] = @ + 1]
              /\ processed_files' = Append(processed_files, CurUnique)
              /\ UNCHANGED skipped_files
    /\ UNCHANGED <<target_subdirs, total_files, stop_requested, all_files, scan_i, initial_target, fixedVars>>

\* a final callback that reports completion whatever the flag says
AlwaysCompleted == "completed"

\* one iteration in which the copy succeeds and is recorded (lines 195-201) and the log line
\* of line 203 then raises out of safe_print, which catches UnicodeEncodeError only: the
\* except of lines 205-207 appends the file to the skipped list as well
HandleFileLogFails ==
    /\ pc = "handle"
    /\ faults < MaxFaults
    /\ ~CurDuplicate("none")
    /\ faults' = faults + 1
    /\ last_fault' = "log"
    /\ after_stop' = IF stop_requested THEN after_stop + 1 ELSE after_stop
    /\ calls' = IF progress_callback THEN Append(calls, [cur |-> i, total |-> total_files, kind |-> "file", name |-> CurFile.name]) ELSE calls
    /\ i' = i + 1
    /\ pc' = "check"
    /\ target_dir' = copy2(target_dir, CurUnique, CurFile.content)
    /\ source_dir' = SourceAfterCopy(source_dir, all_files[i])
    /\ total_size' = total_size + st_size(CurFile.content)
    /\ category_stats' = [category_stats EXCEPT ![CurCategory] = @ + 1]
    /\ processed_files' = Append(processed_files, CurUnique)
    /\ skipped_files' = OnError(skipped_files, all_files[i])
    /\ UNCHANGED <<target_subdirs, total_files, stop_requested, all_files, scan_i, initial_target, fixedVars>>

\* line 210: the label of the final callback, from the flag as it is read after the loop
FinalLabel == IF stop_requested THEN "cancelled" ELSE "completed"

\* line 210: the loop is over; the flag is read once more and decides the branch
ChooseLabel ==
    /\ pc = "final"
    /\ final_label' = FinalLabel
    /\ pc' = "call"
    /\ UNCHANGED <<source_dir, target_dir, target_subdirs, progress_callback, total_files, stop_requested, all_files, scan_i, i, calls, faults, last_fault, initial_target, runs, first_run, after_stop, gui, fn_call, fn_result, listVars>>

\* lines 211/216: the final progress callback; calling None raises TypeError out of organize_files
Final ==
    /\ pc = "call"
    /\ IF progress_callback
       THEN /\ calls' = Append(calls, [cur |-> total_files, total |-> total_files, kind |-> final_label, name |-> <<>>])
            /\ pc' = "done"
       ELSE /\ pc' = "raised"
            /\ UNCHANGED calls
    /\ UNCHANGED <<source_dir, target_dir, target_subdirs, total_files, stop_requested, all_files, scan_i, i, faults, last_fault, initial_target, fixedVars, after_stop, listVars>>

\* the caller constructs a fresh engine for the same directories, once the run is over
Construct ==
    /\ pc \in {"done", "raised"}
    /\ runs < MaxRuns
    /\ runs' = runs + 1
    /\ first_run' = [processed |-> Len(processed_files), skipped |-> Len(skipped_files), complete |-> (faults = 0 /\ ~stop_requested)]
    /\ processed_files' = <<>>
    /\ skipped_files' = <<>>
    /\ total_files' = 0
    /\ stop_requested' = FALSE
    /\ calls' = <<>>
    /\ after_stop' = 0
    /\ final_label' = ""
    /\ pc' = "idle"
    /\ UNCHANGED <<source_dir, target_dir, target_subdirs, progress_callback, all_files, scan_i, i, category_stats, total_size, faults, last_fault, initial_target, gui, fn_call, fn_result>>

\* the caller calls organize_files again on the same engine: nothing is reset (lines 143-165)
OrganizeAgain ==
    /\ pc \in {"done", "raised"}
    /\ runs < MaxRuns
    /\ runs' = runs + 1
    /\ first_run' = [processed |-> Len(processed_files), skipped |-> Len(skipped_files), complete |-> (faults = 0 /\ ~stop_requested)]
    /\ calls' = <<>>
    /\ after_stop' = 0
    /\ final_label' = ""
    /\ pc' = "idle"
    /\ UNCHANGED <<source_dir, target_dir, target_subdirs, progress_callback, processed_files, skipped_files, total_files, stop_requested, all_files, scan_i, i, category_stats, total_size, faults, last_fault, initial_target, gui, fn_call, fn_result>>

\* stop_organizing while no run is active: before organize_files starts, after it is over
StopOutsideRun ==
    /\ pc \in {"idle", "done", "raised"}
    /\ StopOrganizing

Run ==
    \/ OrganizeStart
    \/ ScanRootFails
    \/ ScanStep
    \/ ScanCallbackFails
    \/ ScanEnd
    \/ AfterScan
    \/ CheckStop
    \/ \E fault \in Faults : HandleFile(fault)
    \/ ChooseLabel
    \/ Final

Next ==
    \/ Run
    \/ StopOrganizing

Spec == Init /\ [][Next]_vars

\* run after run, each by a fresh engine over the same directories
NextTwice ==
    \/ Next
    \/ Construct

SpecTwice == Init /\ [][NextTwice]_vars

\* stop requests arrive only while no run is active
NextStopOutside ==
    \/ Run
    \/ StopOutsideRun

SpecStopOutside == Init /\ [][NextStopOutside]_vars

\* one run in which writing a log line can fail as well
NextLog ==
    \/ Next
    \/ HandleFileLogFails

SpecLog == Init /\ [][NextLog]_vars

\* call after call on one engine, no stop request
NextReuse ==
    \/ Run
    \/ OrganizeAgain

SpecReuse == Init /\ [][NextReuse]_vars

-----------------------------------------------------------------------------
(* The GUI (src/gui_organizer.py): the GUI thread and the worker thread *)

\* the engine's variables the GUI's own steps leave alone
engineRunVars == <<source_dir, target_dir, target_subdirs, progress_callback, total_files, all_files, scan_i, i, category_stats, total_size, faults, last_fault, initial_target, fn_call, fn_result>>

\* the GUI always passes update_progress as the callback (line 238)
InitGui == Init /\ progress_callback

\* start_organizing on the GUI thread, lines 224-228 and 277 (directories chosen, dialog confirmed)
StartOrganizing ==
    /\ gui.organize_button
    /\ gui.stopper = "idle"
    /\ gui.organizer = 0 \/ runs < MaxRuns
    /\ gui' = [gui EXCEPT !.is_running = TRUE, !.organize_button = FALSE, !.stop_button = TRUE, !.status_label = "organizing", !.dialog = "none", !.worker = "started", !.pressed = FALSE]
    /\ UNCHANGED <<engineRunVars, processed_files, skipped_files, stop_requested, pc, calls, runs, first_run, after_stop, final_label>>

\* organize_task, line 238: the worker constructs the engine of this run and stores it in self.organizer
WorkerCreate ==
    /\ gui.worker = "started"
    /\ IF gui.organizer = 0
       THEN /\ gui' = [gui EXCEPT !.organizer = runs, !.worker = "organize"]
            /\ UNCHANGED <<processed_files, skipped_files, total_files, stop_requested, pc, calls, runs, first_run, after_stop, final_label>>
       ELSE /\ gui' = [gui EXCEPT !.organizer = runs + 1, !.worker = "organize"]
            /\ runs' = runs + 1
            /\ first_run' = [processed |-> Len(processed_files), skipped |-> Len(skipped_files), complete |-> (faults = 0 /\ ~stop_requested)]
            /\ processed_files' = <<>>
            /\ skipped_files' = <<>>
            /\ total_files' = 0
            /\ stop_requested' = FALSE
            /\ calls' = <<>>
            /\ after_stop' = 0
            /\ final_label' = ""
            /\ pc' = "idle"
    /\ UNCHANGED <<source_dir, target_dir, target_subdirs, progress_callback, all_files, scan_i, i, category_stats, total_size, faults, last_fault, initial_target, fn_call, fn_result>>

\* organize_task, line 252: organize_files runs on the worker thread, up to its final callback
WorkerOrganize ==
    /\ gui.worker = "organize"
    /\ \/ OrganizeStart
       \/ ScanRootFails
       \/ ScanStep
       \/ ScanCallbackFails
       \/ ScanEnd
       \/ AfterScan
       \/ CheckStop
       \/ \E fault \in Faults : HandleFile(fault)
       \/ ChooseLabel

\* update_progress (lines 157-193) on the final label: ignored unless is_running;
\* the cancelled label sets the status text, the completed label leaves it
update_progress(g, text) == IF g.is_running /\ text = "cancelled" THEN [g EXCEPT !.status_label = "cancelled"] ELSE g

\* the engine's final callback (lines 211/216 of file_organizer.py) as the GUI receives it
WorkerFinalCallback ==
    /\ gui.worker = "organize"
    /\ pc = "call"
    /\ calls' = Append(calls, [cur |-> total_files, total |-> total_files, kind |-> final_label, name |-> <<>>])
    /\ gui' = update_progress(gui, final_label)
    /\ pc' = "done"
    /\ UNCHANGED <<engineRunVars, processed_files, skipped_files, stop_requested, runs, first_run, after_stop, final_label>>

\* organize_task after organize_files returned (lines 257-263) or raised (lines 265-269)
WorkerAfterOrganize ==
    /\ gui.worker = "organize"
    /\ pc \in {"done", "raised"}
    /\ gui' = IF pc = "done" THEN [gui EXCEPT !.status_label = "completed", !.dialog = "completed", !.worker = "finally"] ELSE [gui EXCEPT !.status_label = "failed", !.dialog = "error", !.worker = "finally"]
    /\ UNCHANGED <<engineRunVars, processed_files, skipped_files, stop_requested, pc, calls, runs, first_run, after_stop, final_label>>

\* organize_task's finally, lines 272-274
WorkerFinally ==
    /\ gui.worker = "finally"
    /\ gui' = [gui EXCEPT !.is_running = FALSE, !.organize_button = TRUE, !.stop_button = FALSE, !.worker = "none"]
    /\ UNCHANGED <<engineRunVars, processed_files, skipped_files, stop_requested, pc, calls, runs, first_run, after_stop, final_label>>

\* stop_organizing on the GUI thread, lines 281-285, when is_running (otherwise the press does nothing)
StopPressed ==
    /\ gui.stop_button
    /\ gui.stopper = "idle"
    /\ gui.is_running
    /\ gui' = [gui EXCEPT !.is_running = FALSE, !.status_label = "stopping", !.stopper = "deliver", !.pressed = TRUE]
    /\ UNCHANGED <<engineRunVars, processed_files, skipped_files, stop_requested, pc, calls, runs, first_run, after_stop, final_label>>

\* stop_organizing, lines 288-289: the signal goes to whatever self.organizer holds now
StopDeliver ==
    /\ gui.stopper = "deliver"
    /\ gui' = [gui EXCEPT !.stopper = "idle"]
    /\ stop_requested' = IF gui.organizer # 0 THEN TRUE ELSE stop_requested
    /\ UNCHANGED <<engineRunVars, processed_files, skipped_files, pc, calls, runs, first_run, after_stop, final_label>>

NextGui ==
    \/ StartOrganizing
    \/ WorkerCreate
    \/ WorkerOrganize
    \/ WorkerFinalCallback
    \/ WorkerAfterOrganize
    \/ WorkerFinally
    \/ StopPressed
    \/ StopDeliver

SpecGui == InitGui /\ [][NextGui]_vars

-----------------------------------------------------------------------------
(* The helpers called on their own *)

\* the engine's variables, which a helper called on its own leaves alone
engineVars == <<source_dir, target_dir, target_subdirs, progress_callback, processed_files, skipped_files, total_files, stop_requested, all_files, scan_i, i, category_stats, total_size, pc, calls, faults, last_fault, initial_target, runs, first_run, after_stop, final_label, gui>>

\* a freshly constructed engine on an empty source and an empty target
InitHelpers ==
    /\ source_dir = <<>>
    /\ target_dir = <<>>
    /\ target_subdirs = {}
    /\ progress_callback = FALSE
    /\ processed_files = <<>>
    /\ skipped_files = <<>>
    /\ total_files = 0
    /\ stop_requested = FALSE
    /\ all_files = <<>>
    /\ scan_i = 0
    /\ i = 0
    /\ category_stats = [c \in Categories |-> 0]
    /\ total_size = 0
    /\ pc = "idle"
    /\ calls = <<>>
    /\ faults = 0
    /\ last_fault = "none"
    /\ initial_target = <<>>
    /\ runs = 1
    /\ first_run = NoRun
    /\ after_stop = 0
    /\ final_label = ""
    /\ gui = NoGui
    /\ fn_call = NoCall
    /\ fn_result = ""

\* str.upper() of one character
upper(ch) == IF \E j \in 1..26 : LowerCase[j] = ch THEN UpperCase[CHOOSE j \in 1..26 : LowerCase[j] = ch] ELSE ch

\* the extensions of the table, character by character
ListedSuffixes == {
    <<".", "j", "p", "g">>, <<".", "j", "p", "e", "g">>, <<".", "p", "n", "g">>, <<".", "g", "i", "f">>, <<".", "b", "m", "p">>, <<".", "w", "e", "b", "p">>, <<".", "s", "v", "g">>, <<".", "i", "c", "o">>, <<".", "t", "i", "f", "f">>,
    <<".", "m", "p", "4">>, <<".", "a", "v", "i">>, <<".", "m", "o", "v">>, <<".", "w", "m", "v">>, <<".", "f", "l", "v">>, <<".", "m", "k", "v">>, <<".", "w", "e", "b", "m">>, <<".", "m", "4", "v">>, <<".", "3", "g", "p">>,
    <<".", "m", "p", "3">>, <<".", "w", "a", "v">>, <<".", "f", "l", "a", "c">>, <<".", "a", "a", "c">>, <<".", "o", "g", "g">>, <<".", "w", "m", "a">>, <<".", "m", "4", "a">>, <<".", "a", "m", "r">>,
    <<".", "p", "d", "f">>, <<".", "d", "o", "c">>, <<".", "d", "o", "c", "x">>, <<".", "t", "x", "t">>, <<".", "r", "t", "f">>, <<".", "x", "l", "s">>, <<".", "x", "l", "s", "x">>, <<".", "p", "p", "t">>, <<".", "p", "p", "t", "x">>,
    <<".", "z", "i", "p">>, <<".", "r", "a", "r">>, <<".", "7", "z">>, <<".", "t", "a", "r">>, <<".", "g", "z">>, <<".", "b", "z", "2">>,
    <<".", "e", "x", "e">>, <<".", "m", "s", "i">>, <<".", "d", "m", "g">>, <<".", "p", "k", "g">>, <<".", "d", "e", "b">>, <<".", "r", "p", "m">>, <<".", "a", "p", "k">> }

\* an extension in every letter case
CaseVariants(e) == {[k \in 1..Len(e) |-> IF k \in U THEN upper(e[k]) ELSE e[k]] : U \in SUBSET (1..Len(e))}

\* what precedes the extension: a plain stem, a stem with a dot of its own
Stems == {<<"a">>, <<"a", ".", "b">>}

\* names built from a listed extension; listed is the extension as the table spells it
ListedNames == UNION {{[name |-> s \o v, listed |-> Str(e)] : s \in Stems, v \in CaseVariants(e)} : e \in ListedSuffixes}

\* names with an unknown extension or none: no dot, a trailing dot, a leading dot only
UnlistedNames == {[name |-> n, listed |-> ""] : n \in {<<"a">>, <<"a", ".">>, <<".", "t", "x", "t">>, <<"a", ".", "x", "y", "z">>, <<"a", ".", "t", "x", "t", ".", "b", "a", "k">>, <<"a", ".", "j", "p", "g", "x">>}}

\* get_file_category called on a name
Classify(in) ==
    /\ fn_call = NoCall
    /\ fn_call' = [op |-> "get_file_category", name |-> in.name, listed |-> in.listed]
    /\ fn_result' = get_file_category(in.name)
    /\ UNCHANGED engineVars

\* size_names of format_size
size_names == <<<<"B">>, <<"K", "B">>, <<"M", "B">>, <<"G", "B">>, <<"T", "B">>>>

RECURSIVE Pow1024(_)
Pow1024(d) == IF d = 0 THEN 1 ELSE 1024 * Pow1024(d - 1)

\* "size_bytes >= 1024.0" for size_bytes = mant * 1024^d, d of either sign, mant < 1024^2
AtLeast1024(mant, d) == IF d >= 1 THEN mant >= 1 ELSE IF d < 0 - 1 THEN FALSE ELSE mant >= Pow1024(1 - d)

RECURSIVE ScaleFrom(_, _, _)
\* format_size's while loop: each round divides by 1024.0 (exact in binary floating point) and moves to the next unit
ScaleFrom(mant, d, unit) == IF AtLeast1024(mant, d) /\ unit < Len(size_names) - 1 THEN ScaleFrom(mant, d - 1, unit + 1) ELSE [mant |-> mant, d |-> d, unit |-> unit]

\* x = mant * 1024^d rounded to hundredths as f"{x:.2f}" rounds: to the nearest, ties to the even one
Rounded(mant, d) == IF d >= 0 THEN [whole |-> mant * Pow1024(d), frac |-> 0] ELSE LET q == (mant * 100) \div Pow1024(0 - d) r == (mant * 100) % Pow1024(0 - d) h == IF 2 * r > Pow1024(0 - d) \/ (2 * r = Pow1024(0 - d) /\ q % 2 = 1) THEN q + 1 ELSE q IN [whole |-> h \div 100, frac |-> h % 100]

\* f"{x:.2f}" of the rounded value: the whole part, a point, two digits
TwoPlaces(x) == Dec(x.whole) \o <<".", Digits[(x.frac \div 10) + 1], Digits[(x.frac % 10) + 1]>>

\* format_size(mant * 1024^exp), as characters
format_size(mant, exp) == IF mant = 0 THEN <<"0", " ", "B">> ELSE LET s == ScaleFrom(mant, exp, 0) IN TwoPlaces(Rounded(s.mant, s.d)) \o <<" ">> \o size_names[s.unit + 1]

\* byte counts mant * 1024^exp: every small mantissa and the largest one below 1024^2, up to one power beyond TB
SizeInputs == ((0..MaxMantissa) \cup {1024 * 1024 - 1}) \X (0..Len(size_names))

\* format_size called on a byte count
FormatSize(in) ==
    /\ fn_call = NoCall
    /\ fn_call' = [op |-> "format_size", mant |-> in[1], exp |-> in[2]]
    /\ fn_result' = format_size(in[1], in[2])
    /\ UNCHANGED engineVars

\* names as stem and extension: with and without extension, a suffixed stem, a dot in the stem, a leading dot only
StemsAndExtensions == ({<<"a">>, <<"a", "_", "1">>} \X {<<>>, <<".", "t", "x", "t">>, <<".", "J", "P", "G">>}) \cup ({<<"a", ".", "b">>} \X {<<".", "t", "x", "t">>, <<".", "J", "P", "G">>}) \cup {<< <<".", "b">>, <<>> >>}

\* which of the suffixed names stem_k.ext exist: any of the first few, or all up to 11
TakenSets == (SUBSET (1..MaxSuffix)) \cup {1..11}

UniqueInputs == {[stem |-> se[1], ext |-> se[2], literal |-> b, taken |-> T] : se \in StemsAndExtensions, b \in BOOLEAN, T \in TakenSets}

\* the directory an input describes
DirOf(in) == [p \in (IF in.literal THEN {<<"Document", in.stem \o in.ext>>} ELSE {}) \cup {<<"Document", in.stem \o <<"_">> \o Dec(k) \o in.ext>> : k \in in.taken} |-> "X"]

\* generate_unique_filename called on a directory and a file name
UniqueName(in) ==
    /\ fn_call = NoCall
    /\ fn_call' = [op |-> "generate_unique_filename", stem |-> in.stem, ext |-> in.ext, literal |-> in.literal, taken |-> in.taken]
    /\ fn_result' = generate_unique_filename(DirOf(in), "Document", in.stem \o in.ext)
    /\ UNCHANGED engineVars

NextHelpers ==
    \/ \E in \in ListedNames \cup UnlistedNames : Classify(in)
    \/ \E in \in SizeInputs : FormatSize(in)
    \/ \E in \in UniqueInputs : UniqueName(in)

SpecHelpers == InitHelpers /\ [][NextHelpers]_vars

-----------------------------------------------------------------------------
(* A whole run as a function of the enumeration order *)

RECURSIVE OrganizeFrom(_, _, _, _)
\* the loop of organize_files (lines 167-201) over the files in the given order, from the
\* target fs, when nothing fails and no stop is requested: the target and the two counts at the end
OrganizeFrom(files, fs, processed, skipped) == IF files = <<>> THEN [target |-> fs, processed |-> processed, skipped |-> skipped] ELSE LET f == Head(files) c == get_file_category(f.name) IN IF is_duplicate_file(f.content, fs, <<c, f.name>>, FALSE, FALSE) THEN OrganizeFrom(Tail(files), fs, processed, skipped + 1) ELSE OrganizeFrom(Tail(files), copy2(fs, generate_unique_filename(fs, c, f.name), f.content), processed + 1, skipped)

-----------------------------------------------------------------------------
(* Vocabulary of the properties *)

\* the category the table gives each sample name (.txt is a document, .JPG an image)
ExpectedCategory(name) == CASE name \in {NameA, NameA1} -> "Document" [] name = NameP -> "Image" [] OTHER -> "Other"

\* name with _n inserted before its extension
Suffixed(name, n) == PathStem(name) \o <<"_">> \o Dec(n) \o PathSuffix(name)

\* the run is over and its loop handled every enumerated file
RunComplete == pc \in {"done", "raised"} /\ all_files # <<>> /\ i = Len(all_files) + 1

\* the files of the target tree that lie in category directory c
FilesIn(fs, c) == {p \in DOMAIN fs : p[1] = c}

-----------------------------------------------------------------------------
(* C1 *)

\* C1: no transition of a run deletes, renames or rewrites a source file: the
\* source tree after every step (copies, failures, cancellation) is the source
\* tree before it.
C1_SourceNeverModified == [][source_dir' = source_dir]_vars

\* a cancelled run in which one file failed and another was copied
C1_Witness == pc = "done" /\ stop_requested /\ faults > 0 /\ processed_files # <<>> /\ skipped_files # <<>>

-----------------------------------------------------------------------------
(* C2 *)

\* every file of the target keeps its content across the step
NoOverwrite == \A p \in DOMAIN target_dir : p \in DOMAIN target_dir' /\ target_dir'[p] = target_dir[p]

\* the source holds only files of one name, with pairwise distinct contents
SameNamedDistinct == /\ source_dir # <<>>
                     /\ \A k \in 1..Len(source_dir) : source_dir[k].kind = "file" /\ source_dir[k].name = source_dir[1].name
                     /\ \A j, k \in 1..Len(source_dir) : j # k => source_dir[j].content # source_dir[k].content

\* after a complete run over k same-named distinct files into an empty category
\* directory, the directory holds exactly name, name_1, ..., name_(k-1), with the k contents
SameNamedOutcome == LET n == source_dir[1].name
                        c == ExpectedCategory(n)
                        expected == {<<c, n>>} \cup {<<c, Suffixed(n, j)>> : j \in 1..(Len(source_dir) - 1)}
                    IN (RunComplete /\ faults = 0 /\ SameNamedDistinct /\ FilesIn(initial_target, c) = {})
                         => /\ FilesIn(target_dir, c) = expected
                            /\ Cardinality(expected) = Len(source_dir)
                            /\ {target_dir[p] : p \in expected} = {source_dir[k].content : k \in 1..Len(source_dir)}

\* C2: no step overwrites or removes a file of the target (every copy goes to
\* a path that did not exist), and k same-named files with pairwise distinct
\* contents copied into an empty category directory yield exactly name.ext,
\* name_1.ext, ..., name_(k-1).ext, each holding one of the original contents.
C2_NoOverwrite == [][NoOverwrite]_vars /\ []SameNamedOutcome

\* two files named a.txt, contents X then Y, ended as Document/a.txt and Document/a_1.txt
C2_Witness == /\ RunComplete /\ faults = 0 /\ SameNamedDistinct /\ Len(source_dir) = 2 /\ initial_target = <<>>
              /\ source_dir[1].name = NameA
              /\ DOMAIN target_dir = {<<"Document", NameA>>, <<"Document", NameA1>>}
              /\ target_dir[<<"Document", NameA>>] = source_dir[1].content
              /\ target_dir[<<"Document", NameA1>>] = source_dir[2].content

-----------------------------------------------------------------------------
(* C3 *)

\* fs with content written at the new path q and nothing else changed
Extends(fs2, fs, q, content) == /\ q \notin DOMAIN fs
                                /\ DOMAIN fs2 = DOMAIN fs \cup {q}
                                /\ fs2[q] = content
                                /\ \A p \in DOMAIN fs : fs2[p] = fs[p]

\* the step handles file i and nothing failed in it
HandledCleanly == pc = "handle" /\ pc' = "check" /\ last_fault' = "none"

DuplicateRule == LET f == source_dir[all_files[i]]
                     c == ExpectedCategory(f.name)
                     literal == <<c, f.name>>
                 IN (HandledCleanly /\ literal \in DOMAIN target_dir) =>
                      IF target_dir[literal] = f.content
                      THEN /\ skipped_files' = Append(skipped_files, all_files[i])
                           /\ processed_files' = processed_files
                           /\ target_dir' = target_dir
                      ELSE \E n \in 1..(Cardinality(DOMAIN target_dir) + 1) :
                              /\ \A m \in 1..(n - 1) : <<c, Suffixed(f.name, m)>> \in DOMAIN target_dir
                              /\ Extends(target_dir', target_dir, <<c, Suffixed(f.name, n)>>, f.content)
                              /\ processed_files' = Append(processed_files, <<c, Suffixed(f.name, n)>>)
                              /\ skipped_files' = skipped_files

\* C3: when a file is handled and target/c/basename already exists: with equal
\* content the file is appended to the skipped list, nothing is appended to
\* the processed list and the target is unchanged; with different content
\* the file is copied to the first free suffixed name (stem_1.ext when free)
\* and that path is appended to the processed list.  (The iteration meets no
\* I/O failure.)
C3_DuplicateRule == [][DuplicateRule]_vars

\* a.txt(X) met Document/a.txt(X) and was skipped; a.txt(Y) met it with
\* a_1.txt taken and went to a_2.txt
C3_Witness == /\ RunComplete /\ faults = 0
              /\ initial_target = [p \in PrePaths |-> "X"]
              /\ skipped_files = <<1>>
              /\ source_dir[1].content = "X"
              /\ processed_files = << <<"Document", NameA2>> >>
              /\ target_dir[<<"Document", NameA2>>] = "Y"

-----------------------------------------------------------------------------
(* C4 *)

\* a second run by a fresh engine has ended; neither run was cancelled or met a failure
SecondRunOver == runs = 2 /\ pc = "done" /\ first_run.complete /\ faults = 0 /\ ~stop_requested

\* C4 (idempotence): after a complete first run, a second run by a fresh engine
\* over the same unchanged source and the same target processes no file and
\* writes no new file into the target.
C4_SecondRunCopiesNothing == SecondRunOver => (processed_files = <<>> /\ target_dir = initial_target)

-----------------------------------------------------------------------------
(* C5 *)

\* a step in which handling file i raised: the file goes to the skipped list
\* only, and the loop moves on to the next file
FailureRule == (pc = "handle" /\ last_fault' \in RaisingFaults) =>
                  /\ skipped_files' = Append(skipped_files, all_files[i])
                  /\ processed_files' = processed_files
                  /\ pc' = "check" /\ i' = i + 1 /\ all_files' = all_files

\* the loop is left only when the files are exhausted or a stop was requested
LoopLeaves == (pc = "check" /\ pc' # "check") => (pc' = "handle" \/ i > Len(all_files) \/ stop_requested)

\* organize_files raises only from its final callback call
RaisesOnlyAtFinal == (pc' = "raised" /\ pc # "raised") => pc = "call"

\* every file the loop has passed is in one of the two lists
Accounted == pc \in {"check", "handle", "final", "call", "done", "raised"} /\ all_files # <<>> => Len(processed_files) + Len(skipped_files) = i - 1

\* C5: a failure while one file is processed (the callback, the existence
\* checks of the duplicate check and the name resolution, the copy, the size
\* lookup) never aborts the run: the file is appended to the skipped list and
\* not to the processed list, the loop goes on to the next file and ends only
\* when the files are exhausted or a stop is requested, and organize_files
\* raises nothing because of it.
C5_FailureIsSkipped == [][FailureRule /\ LoopLeaves /\ RaisesOnlyAtFinal]_vars /\ []Accounted

\* the first file failed and was skipped, the second was still copied, the run completed
C5_Witness == /\ RunComplete /\ pc = "done" /\ ~stop_requested
              /\ initial_target = <<>> /\ faults = 1
              /\ skipped_files = <<1>> /\ Len(processed_files) = 1
              /\ calls[Len(calls)].kind = "completed"

-----------------------------------------------------------------------------
(* C6 *)

FinalCall(label) == [cur |-> total_files, total |-> total_files, kind |-> label, name |-> <<>>]

\* the loop reaches file i, i <= M, with the stop flag set: it breaks, handling nothing
BreakRule == (pc = "check" /\ stop_requested /\ i <= Len(all_files)) =>
                /\ pc' \in {"check", "final"}
                /\ UNCHANGED <<processed_files, skipped_files, target_dir, i>>

\* after the break: the cancelled label is reported and nothing is written
CancelledRule == /\ (pc = "final" /\ stop_requested) =>
                       /\ UNCHANGED <<processed_files, skipped_files, target_dir, i>>
                       /\ pc' = "final" \/ (pc' = "call" /\ final_label' = "cancelled")
                 /\ (pc = "call" /\ final_label = "cancelled") =>
                       /\ UNCHANGED <<processed_files, skipped_files, target_dir, i>>
                       /\ progress_callback => (pc' = "call" /\ calls' = calls) \/ (pc' = "done" /\ calls' = Append(calls, FinalCall("cancelled")))

\* a run that returned before its last file: it was cancelled, the lists hold
\* the N files handled before the break, and the last call carries the label
CancelledOutcome == (pc = "done" /\ all_files # <<>> /\ i <= Len(all_files)) =>
                       /\ stop_requested
                       /\ Len(processed_files) + Len(skipped_files) = i - 1
                       /\ calls[Len(calls)] = FinalCall("cancelled")

\* C6: when a stop has been requested by the time the loop reaches file N+1
\* (N < M files handled), the loop breaks before that file: the processed
\* list and the target stay as the N handled files left them, no later file
\* is written, and the run ends with the final callback call carrying the
\* cancelled label (for an engine that was given a callback).
C6_Cancellation == [][BreakRule /\ CancelledRule]_vars /\ []CancelledOutcome

\* stop arrived after one of two files was copied: the run ended cancelled with that one file
C6_Witness == /\ pc = "done" /\ stop_requested /\ Len(all_files) = 2 /\ i = 2
              /\ Len(processed_files) = 1 /\ Cardinality(DOMAIN target_dir) = 1
              /\ calls[Len(calls)].kind = "cancelled"

-----------------------------------------------------------------------------
(* C7 *)

\* C7: a stop request made while no run is active has no effect: a run started
\* after it still handles every enumerated file and ends with the completed
\* label.  (Checked where stop requests arrive only outside a run.)
C7_StopOutsideRunHasNoEffect == (pc = "done" /\ all_files # <<>>) => (i = Len(all_files) + 1 /\ calls[Len(calls)].kind = "completed")

-----------------------------------------------------------------------------
(* C8 *)

FinalLabels == {"completed", "cancelled"}

\* C8: every run that returns, of an engine with a callback, ends with exactly
\* one final callback call, with current = total and a label naming the
\* terminal state, also when the scan yields no file.
C8_FinalCallback == (pc = "done" /\ progress_callback /\ faults = 0) =>
                       /\ calls # <<>>
                       /\ calls[Len(calls)].cur = calls[Len(calls)].total
                       /\ calls[Len(calls)].kind \in FinalLabels
                       /\ Cardinality({k \in 1..Len(calls) : calls[k].kind \in FinalLabels}) = 1

-----------------------------------------------------------------------------
(* C9 *)

\* C9: an engine constructed without a callback reaches its terminal state
\* without raising (stated for a run that meets no stop request and no failure).
C9_NoCallbackNeverRaises == (~progress_callback /\ ~stop_requested /\ faults = 0) => pc # "raised"

-----------------------------------------------------------------------------
(* C10 *)

\* every recorded destination lies in the category directory of a source file,
\* under that file's name or the name with _n before the extension, and holds
\* that file's content
ProcessedWellPlaced == \A j \in 1..Len(processed_files) :
                          LET p == processed_files[j]
                          IN /\ p \in DOMAIN target_dir
                             /\ \E k \in 1..Len(source_dir) :
                                   /\ source_dir[k].kind = "file"
                                   /\ p[1] = ExpectedCategory(source_dir[k].name)
                                   /\ \/ p[2] = source_dir[k].name
                                      \/ \E n \in 1..Cardinality(DOMAIN target_dir) : p[2] = Suffixed(source_dir[k].name, n)
                                   /\ target_dir[p] = source_dir[k].content

\* a single file copied into an empty target lands under its own name, case
\* kept, in its category directory
SingleFileOutcome == (RunComplete /\ faults = 0 /\ initial_target = <<>> /\ Len(all_files) = 1) =>
                        LET f == source_dir[all_files[1]]
                            p == <<ExpectedCategory(f.name), f.name>>
                        IN processed_files = <<p>> /\ target_dir = [q \in {p} |-> f.content]

\* C10: every path in the processed list lies directly in target/<category of
\* its source file>, carries the source's basename or that basename with _<n>
\* before the extension, and holds the source's content; a single file copied
\* into an empty target lands under its original basename, extension case
\* preserved, in its category directory.
C10_ProcessedPlacement == ProcessedWellPlaced /\ SingleFileOutcome

\* p.JPG alone, content X, ended as Image/p.JPG with content X
C10_Witness == /\ RunComplete /\ faults = 0 /\ initial_target = <<>>
               /\ processed_files = << <<"Image", NameP>> >>
               /\ target_dir = [q \in {<<"Image", NameP>>} |-> "X"]

-----------------------------------------------------------------------------
(* C11 *)

\* no extension is listed under two categories
ListedOnce == \A j, k \in 1..Len(file_categories) : j # k => file_categories[j].extensions \cap file_categories[k].extensions = {}

\* the character-by-character extensions are exactly the table's
ListedSuffixesAreTheTable == {Str(e) : e \in ListedSuffixes} = UNION {file_categories[k].extensions : k \in 1..Len(file_categories)}

\* C11: get_file_category is total and single-valued.  A name built from an
\* extension the table lists, in any letter case, gets the category of the
\* row listing that extension, and no extension is listed by two rows; a name
\* with an unknown extension or none gets the fallback category; the result
\* is always one of the categories.
C11_CategoryTotalSingleValued == ListedOnce /\ ListedSuffixesAreTheTable /\ (fn_call.op = "get_file_category" => /\ fn_result \in Categories
                                                                                                                 /\ fn_call.listed = "" => fn_result = "Other"
                                                                                                                 /\ \A k \in 1..Len(file_categories) : fn_call.listed \in file_categories[k].extensions => fn_result = file_categories[k].category)

C11_Witness == fn_call.op = "get_file_category" /\ fn_call.name = <<"a", ".", "b", ".", "J", "p", "E", "g">> /\ fn_result = "Image"

-----------------------------------------------------------------------------
(* C12 *)

\* C12: the run state is fresh at the start of every organize_files call:
\* while the call scans, before any file is handled, the processed list and
\* the skipped list are empty and the stop flag is clear, also when the same
\* engine ran before.
C12_FreshAtStart == pc = "scan" => (processed_files = <<>> /\ skipped_files = <<>> /\ ~stop_requested)

-----------------------------------------------------------------------------
(* C13 *)

\* a step in which a digest could not be computed: the file is copied to the
\* first free name and recorded as processed, not skipped
HashFailureRule == LET f == source_dir[all_files[i]]
                       c == ExpectedCategory(f.name)
                   IN (pc = "handle" /\ last_fault' \in HashFaults) =>
                        /\ <<c, f.name>> \in DOMAIN target_dir
                        /\ skipped_files' = skipped_files
                        /\ \E n \in 1..(Cardinality(DOMAIN target_dir) + 1) :
                              /\ Extends(target_dir', target_dir, <<c, Suffixed(f.name, n)>>, f.content)
                              /\ processed_files' = Append(processed_files, <<c, Suffixed(f.name, n)>>)

\* is_duplicate_file on the file about to be handled, under every combination of failing digests
NeverDuplicateOnFailure == pc = "handle" =>
                              LET f == source_dir[all_files[i]]
                                  literal == <<ExpectedCategory(f.name), f.name>>
                              IN \A source_fails, target_fails \in BOOLEAN :
                                    (source_fails \/ target_fails \/ literal \notin DOMAIN target_dir) =>
                                       ~is_duplicate_file(f.content, target_dir, literal, source_fails, target_fails)

\* a clean step with the literal destination free: the file is copied there
AbsentRule == LET f == source_dir[all_files[i]]
                  literal == <<ExpectedCategory(f.name), f.name>>
              IN (HandledCleanly /\ literal \notin DOMAIN target_dir) =>
                    /\ Extends(target_dir', target_dir, literal, f.content)
                    /\ processed_files' = Append(processed_files, literal)

\* C13: a hashing failure is never reported as a duplicate: is_duplicate_file
\* returns false whenever the digest of the source, of the destination, or of
\* both cannot be computed, and the file is then copied (to the first free
\* name) and recorded as processed; when the destination does not exist
\* is_duplicate_file returns false as well and the file is copied there.
C13_HashFailureNotDuplicate == [][HashFailureRule /\ AbsentRule]_vars /\ []NeverDuplicateOnFailure

\* a.txt(X) met Document/a.txt(X), neither digest could be computed, and the
\* identical file was copied again to a_1.txt
C13_Witness == /\ last_fault = "hash_both"
               /\ <<"Document", NameA1>> \notin DOMAIN initial_target
               /\ processed_files = << <<"Document", NameA1>> >>
               /\ target_dir[<<"Document", NameA>>] = "X"
               /\ target_dir[<<"Document", NameA1>>] = "X"
               /\ skipped_files = <<>>

-----------------------------------------------------------------------------
(* C14 *)

IsDigit(ch) == \E j \in 1..10 : Digits[j] = ch

\* digits, a point, two digits, a space, a unit
TwoDecimalsAndUnit(r) == \E k \in 5..Len(r) :
                            /\ r[k] = " "
                            /\ \E u \in 1..Len(size_names) : SubSeq(r, k + 1, Len(r)) = size_names[u]
                            /\ r[k - 3] = "." /\ IsDigit(r[k - 2]) /\ IsDigit(r[k - 1])
                            /\ \A j \in 1..(k - 4) : IsDigit(r[j])

\* the unit of mant * 1024^exp: as many divisions as leave a magnitude below 1024, four at most
UnitOf(mant, exp) == LET u == IF mant < 1024 THEN exp ELSE exp + 1 IN IF u > 4 THEN 4 ELSE u

\* C14: format_size renders every byte count with two decimal places and a
\* binary unit, dividing by 1024 until the magnitude is below 1024 or the unit
\* TB is reached: 0 bytes gives "0.00 B", 1536 bytes gives "1.50 KB",
\* 1073741824 bytes gives "1.00 GB".
C14_SizeFormat == fn_call.op = "format_size" =>
                     /\ TwoDecimalsAndUnit(fn_result)
                     /\ \E k \in 1..Len(fn_result) : fn_result[k] = " " /\ SubSeq(fn_result, k + 1, Len(fn_result)) = size_names[UnitOf(fn_call.mant, fn_call.exp) + 1]
                     /\ fn_call.mant = 0 => Str(fn_result) = "0.00 B"
                     /\ (fn_call.mant = 1536 /\ fn_call.exp = 0) => Str(fn_result) = "1.50 KB"
                     /\ (fn_call.mant = 1 /\ fn_call.exp = 3) => Str(fn_result) = "1.00 GB"

-----------------------------------------------------------------------------
(* C15 *)

\* file i is started only by the poll of the flag at the head of its iteration, which found it clear
PolledBeforeHandling == (pc' = "handle" /\ pc # "handle") => (pc = "check" /\ ~stop_requested /\ i <= Len(all_files) /\ i' = i)

\* an iteration under way runs to its end, stop request or not, and the loop returns to the poll
IterationCompletes == (pc = "handle" /\ pc' # "handle") => (pc' = "check" /\ i' = i + 1 /\ Len(processed_files') + Len(skipped_files') = Len(processed_files) + Len(skipped_files) + 1)

\* once the flag is set no file is started
NoLaterFileStarted == (stop_requested /\ pc # "handle") => pc' # "handle"

\* of the files handled, at most one was handled after the flag was set
AtMostOneAfterStop == after_stop <= 1

\* the label is chosen from the flag as line 210 reads it, and the final call carries that label
LabelFromFlagRead == /\ (pc = "final" /\ pc' = "call") => (final_label' = "cancelled" <=> stop_requested)
                     /\ (pc = "call" /\ pc' = "done") => calls' = Append(calls, FinalCall(final_label))

\* the final call carries the cancelled label whenever the flag is set when the call is made
LabelFromFlagAtCall == (pc = "call" /\ pc' = "done" /\ stop_requested) => calls' = Append(calls, FinalCall("cancelled"))

\* C15, as amended: under every interleaving of stop_organizing with a running
\* organize_files the flag is polled once per file, before that file is
\* handled: once the flag is set, at most the one file whose iteration had
\* already passed the check is still handled and recorded and no later file is
\* started; the final callback carries the cancelled label exactly when the
\* flag was set by the time organize_files read it after the loop (line 210),
\* so a stop arriving between that read and the call leaves the completed label.
C15_StopInterleaving == [][PolledBeforeHandling /\ IterationCompletes /\ NoLaterFileStarted /\ LabelFromFlagRead]_vars /\ []AtMostOneAfterStop

\* C15, as claimed: the same, with the run ending in the cancelled final
\* callback instead of the completed one once the flag is set, wherever in
\* the run the stop request lands.
C15_AsClaimed == [][PolledBeforeHandling /\ IterationCompletes /\ NoLaterFileStarted /\ LabelFromFlagAtCall]_vars /\ []AtMostOneAfterStop

\* the stop request landed while the first of two files was being handled: that
\* file was copied and recorded, the second was not started, the run ended cancelled
C15_Witness == /\ pc = "done" /\ after_stop = 1
               /\ Len(all_files) = 2 /\ i = 2
               /\ Len(processed_files) = 1 /\ Cardinality(DOMAIN target_dir) = Cardinality(DOMAIN initial_target) + 1
               /\ calls[Len(calls)] = FinalCall("cancelled")

-----------------------------------------------------------------------------
(* C16 *)

\* s ends with e
EndsWith(s, e) == Len(s) >= Len(e) /\ SubSeq(s, Len(s) - Len(e) + 1, Len(s)) = e

\* C16: generate_unique_filename returns the literal path dir/filename when it
\* does not exist; otherwise it returns dir/stem_k.ext for the smallest k >= 1
\* such that that path does not exist.  The result does not exist in the
\* directory, lies in it and keeps the original extension.  (It is computed
\* from the directory's contents and the name alone.)
C16_UniqueName == fn_call.op = "generate_unique_filename" =>
                     LET dir == DirOf(fn_call)
                         filename == fn_call.stem \o fn_call.ext
                     IN /\ fn_result \notin DOMAIN dir
                        /\ fn_result[1] = "Document"
                        /\ EndsWith(fn_result[2], fn_call.ext)
                        /\ <<"Document", filename>> \notin DOMAIN dir => fn_result[2] = filename
                        /\ <<"Document", filename>> \in DOMAIN dir =>
                              \E k \in 1..(Cardinality(fn_call.taken) + 1) :
                                 /\ fn_result[2] = fn_call.stem \o <<"_">> \o Dec(k) \o fn_call.ext
                                 /\ k \notin fn_call.taken
                                 /\ \A j \in 1..(k - 1) : j \in fn_call.taken

\* a.b.txt, a.b_1.txt and a.b_3.txt exist: the result is a.b_2.txt
C16_Witness == /\ fn_call.op = "generate_unique_filename"
               /\ fn_call.stem = <<"a", ".", "b">> /\ fn_call.ext = <<".", "t", "x", "t">>
               /\ fn_call.literal /\ fn_call.taken = {1, 3}
               /\ Str(fn_result[2]) = "a.b_2.txt"

-----------------------------------------------------------------------------
(* C17 *)

\* a clean step on a file that differs from the file at its literal destination
\* while a renamed copy with its content sits in the same directory: the file
\* is copied once more, to the first free suffixed name
LiteralOnlyRule == LET f == source_dir[all_files[i]]
                       c == ExpectedCategory(f.name)
                       renamed == {n \in 1..Cardinality(DOMAIN target_dir) : <<c, Suffixed(f.name, n)>> \in DOMAIN target_dir}
                   IN (/\ HandledCleanly
                       /\ <<c, f.name>> \in DOMAIN target_dir
                       /\ target_dir[<<c, f.name>>] # f.content
                       /\ \E n \in renamed : target_dir[<<c, Suffixed(f.name, n)>>] = f.content) =>
                         /\ skipped_files' = skipped_files
                         /\ \E k \in 1..(Cardinality(renamed) + 1) :
                               /\ k \notin renamed /\ \A j \in 1..(k - 1) : j \in renamed
                               /\ Extends(target_dir', target_dir, <<c, Suffixed(f.name, k)>>, f.content)
                               /\ processed_files' = Append(processed_files, <<c, Suffixed(f.name, k)>>)

\* C17: duplicate detection looks only at the literal destination
\* target/<category>/<basename>, never at renamed copies: a source file whose
\* content differs from the file at the literal destination is copied again
\* to the next free suffixed name even when a renamed copy (a_1.txt) with
\* identical content already exists in that directory.
C17_LiteralDestinationOnly == [][LiteralOnlyRule]_vars

\* a.txt(Y) twice against Document/a.txt(X): the first went to a_1.txt, the
\* second, identical to a_1.txt, went to a_2.txt
C17_Witness == /\ RunComplete /\ faults = 0
               /\ source_dir = <<[kind |-> "file", name |-> NameA, content |-> "Y"], [kind |-> "file", name |-> NameA, content |-> "Y"]>>
               /\ processed_files = << <<"Document", NameA1>>, <<"Document", NameA2>> >>
               /\ target_dir[<<"Document", NameA>>] = "X"
               /\ target_dir[<<"Document", NameA1>>] = "Y"
               /\ target_dir[<<"Document", NameA2>>] = "Y"
               /\ skipped_files = <<>>

-----------------------------------------------------------------------------
(* C18 *)

\* how many files of category directory c hold content x
ContentCount(fs, c, x) == Cardinality({p \in FilesIn(fs, c) : fs[p] = x})

\* the files of the run in another enumeration order
Reordered(perm) == [k \in 1..Len(all_files) |-> source_dir[all_files[perm[k]]]]

\* the run that has just completed, replayed by OrganizeFrom in its own order, ends as the run did
ReplayAgrees == (RunComplete /\ faults = 0) =>
                   LET replay == OrganizeFrom(Reordered([k \in 1..Len(all_files) |-> k]), initial_target, 0, 0)
                   IN replay.target = target_dir /\ replay.processed = Len(processed_files) /\ replay.skipped = Len(skipped_files)

\* C18: the outcome of a run does not depend on the enumeration order: when a
\* run over the source files has completed without failure, a run over the
\* same files in any other order against the same initial target ends with
\* the same number of processed files, the same number of skipped files and
\* the same multiset of file contents in each category directory.
C18_OrderIndependent == (RunComplete /\ faults = 0) =>
                           \A perm \in Permutations(1..Len(all_files)) :
                              LET other == OrganizeFrom(Reordered(perm), initial_target, 0, 0)
                              IN /\ other.processed = Len(processed_files)
                                 /\ other.skipped = Len(skipped_files)
                                 /\ \A c \in Categories, x \in Contents : ContentCount(other.target, c, x) = ContentCount(target_dir, c, x)

-----------------------------------------------------------------------------
(* C19 *)

\* the entries scan_files returned
Returned == {all_files[j] : j \in 1..Len(all_files)}

\* C19: an error raised while one entry is handled during scanning (an error
\* raised by the progress callback for that entry included) is confined to
\* that entry: when scan_files has returned and the enumeration of the root
\* itself did not fail, every regular file other than an entry whose handling
\* raised has been visited and is in the result.
C19_ScanErrorConfined == (pc = "scanned" /\ scan_i > 0) =>
                            \A k \in 1..Len(source_dir) :
                               (source_dir[k].kind = "file" /\ (k # scan_i \/ faults = 0)) => (k <= scan_i /\ k \in Returned)

-----------------------------------------------------------------------------
(* C20 *)

\* from the start of the scan on, every category directory exists
DirectoriesBeforeScan == pc # "idle" => Categories \subseteq target_subdirs

\* the scanning calls precede every other call
ScanCallsFirst == \A j, k \in 1..Len(calls) : (j < k /\ calls[k].kind = "scan") => calls[j].kind = "scan"

\* the n-th processing call reports current = n and the n-th enumerated file
ProcessingInOrder == \A k \in 1..Len(calls) : calls[k].kind = "file" =>
                        LET n == Cardinality({j \in 1..k : calls[j].kind = "file"})
                        IN calls[k].cur = n /\ calls[k].total = Len(all_files) /\ calls[k].name = source_dir[all_files[n]].name

\* scanning calls are made during the scan, processing calls during the loop, and a terminal call is the last call
CallsInPhase == /\ \A k \in 1..Len(calls) : calls[k].kind \in FinalLabels => (k = Len(calls) /\ pc = "done")
                /\ pc = "scan" => \A k \in 1..Len(calls) : calls[k].kind = "scan"

\* a file is written only by the loop, into a category directory that exists
CopiedWhileProcessing == target_dir' # target_dir =>
                            /\ pc = "handle"
                            /\ \A p \in DOMAIN target_dir' : p[1] \in target_subdirs

\* C20: a run passes through its phases in order Preparing, Scanning,
\* Processing, terminal: all category directories exist under the target root
\* before the scan starts (pre-existing ones are not an error), every
\* scanning-labelled callback precedes every processing callback, processing
\* callbacks are issued in enumeration order with current = 1, 2, ..., and no
\* file is copied before its category directory exists or after the terminal
\* callback.
C20_PhasesInOrder == [][CopiedWhileProcessing]_vars /\ [](DirectoriesBeforeScan /\ ScanCallsFirst /\ ProcessingInOrder /\ CallsInPhase)

\* Document existed before the run; two files were scanned, then handled as
\* 1 and 2, and the terminal call came last
C20_Witness == /\ pc = "done" /\ initial_target # <<>>
               /\ Len(calls) = 5
               /\ calls[1].kind = "scan" /\ calls[2].kind = "scan"
               /\ calls[3].kind = "file" /\ calls[3].cur = 1
               /\ calls[4].kind = "file" /\ calls[4].cur = 2
               /\ calls[5].kind = "completed"
               /\ Len(processed_files) = 2

-----------------------------------------------------------------------------
(* C21 *)

RECURSIVE StatsFrom(_)
\* the sum of the per-category counts, from row k of the table on
StatsFrom(k) == IF k > Len(file_categories) THEN 0 ELSE category_stats[file_categories[k].category] + StatsFrom(k + 1)

\* no entry of the list occurs twice
NoRepeats(list) == \A j, k \in 1..Len(list) : j # k => list[j] # list[k]

\* C21: on a freshly constructed engine, after every iteration of the
\* processing loop each file handled so far is recorded exactly once, in
\* exactly one of the processed and skipped lists: the two lists together
\* have as many entries as files were iterated (i - 1, the break of a
\* cancellation not counted), no entry occurs twice, and the per-category
\* counts add up to the length of the processed list.
C21_Accounting == (pc \in {"check", "handle", "final", "call", "done", "raised"} /\ all_files # <<>>) =>
                     /\ Len(processed_files) + Len(skipped_files) = i - 1
                     /\ NoRepeats(processed_files) /\ NoRepeats(skipped_files)
                     /\ StatsFrom(1) = Len(processed_files)

-----------------------------------------------------------------------------
(* C22 *)

\* C22: in the GUI, whenever the stop button is pressed while a run is active
\* (is_running true), the stop signal reaches the engine instance executing
\* that run, under every interleaving of the GUI thread with the worker
\* thread: once stop_organizing has returned, the engine the worker runs
\* organize_files on has its stop flag set.
C22_StopReachesEngine == (gui.pressed /\ gui.stopper = "idle" /\ gui.worker = "organize") => stop_requested

-----------------------------------------------------------------------------
(* C23 *)

\* C23: in the GUI, a run that was cancelled through the stop button (the
\* button was pressed while the run was active and the engine ended the run
\* with the cancelled label) ends with the status display showing the
\* cancellation: when the worker has left organize_files the status text is
\* the cancelled one, and neither the completed status nor the completion
\* dialog is shown.
C23_CancelledRunShownCancelled == (gui.pressed /\ final_label = "cancelled" /\ gui.worker \in {"finally", "none"}) => (gui.status_label = "cancelled" /\ gui.dialog # "completed")

====
